---- MODULE Spec2Model ----
(***************************************************************************)
(* Model of pkg/nix/cmd/closure.go: the runtime-closure graph enrichment   *)
(* (addNarHashToGraph and its per-node goroutines), the identity parser    *)
(* (parseAppDetails / findAppType), the artifact digest resolver           *)
(* (artifactHash) and the label normaliser (CleanNameFromGraph).           *)
(*                                                                         *)
(* Go strings (labels, paths, file names, digests) are modelled as          *)
(* sequences of one-character strings; hash functions are uninterpreted    *)
(* and injective: a digest is the record of its algorithm and its input.   *)
(***************************************************************************)
EXTENDS Integers, Sequences, FiniteSets, TLC

VARIABLES
    call,       \* the pending call of a function under test: name and arguments
    ret,        \* what that call returned, NoRet before it returns
    fs,         \* the filesystem: path -> entry (absent paths do not exist)
    app,        \* the *App under construction in GetRuntimeClosureGraph
    nodeName,   \* graph.Nodes.Nodes[k].Name, as the graph source wrote it
    attrs,      \* graph.Nodes.Nodes[k].Attrs
    loopIdx,    \* position of the range loop of addNarHashToGraph
    wg,         \* the sync.WaitGroup counter
    mainpc,     \* where the calling goroutine is
    taskpc,     \* where each spawned goroutine is
    taskNode,   \* the node argument each goroutine was started with
    accessed    \* per attribute map, the goroutines that have touched it

vars == <<call, ret, fs, app, nodeName, attrs, loopIdx, wg, mainpc, taskpc,
          taskNode, accessed>>

graphVars == <<nodeName, attrs, loopIdx, wg, taskpc, taskNode, accessed>>

-----------------------------------------------------------------------------
(* Bounds *)

MaxLabelLen == 3
MaxSegments == 4
NumNodes == 3
FewNodes == 2

-----------------------------------------------------------------------------
(* Go strings: sequences of one-character strings *)

\* Go passes arguments by value: Op applied to the value of x, x evaluated once.
Call(Op(_), x) == CHOOSE r \in {Op(v) : v \in {x}} : TRUE

Quote == "\""
Backslash == "\\"

HasPrefix(s, p) == Len(s) >= Len(p) /\ SubSeq(s, 1, Len(p)) = p

TrimPrefix(s, p) == IF HasPrefix(s, p) THEN SubSeq(s, Len(p) + 1, Len(s)) ELSE s

SetMin(S) == CHOOSE x \in S : \A y \in S : x <= y
SetMax(S) == CHOOSE x \in S : \A y \in S : y <= x

\* strings.Trim: drop every leading and trailing character of the cutset
Trim(s, cutset) ==
    LET keep == {i \in 1..Len(s) : s[i] \notin cutset}
    IN  IF keep = {} THEN <<>> ELSE SubSeq(s, SetMin(keep), SetMax(keep))

MatchesFrom(s, old, i) ==
    {j \in i..(Len(s) - Len(old) + 1) : SubSeq(s, j, j + Len(old) - 1) = old}

\* strings.Replace(s, old, new, -1) for a non-empty old: the non-overlapping
\* occurrences of old, found left to right, each replaced by new
RECURSIVE ReplaceFrom(_, _, _, _)
ReplaceFrom(s, old, new, i) ==
    IF MatchesFrom(s, old, i) = {} THEN SubSeq(s, i, Len(s))
    ELSE SubSeq(s, i, SetMin(MatchesFrom(s, old, i)) - 1) \o new
         \o ReplaceFrom(s, old, new, SetMin(MatchesFrom(s, old, i)) + Len(old))

Replace(s, old, new) == ReplaceFrom(s, old, new, 1)

\* strings.Split(s, sep) for a one-character sep: the pieces between the
\* occurrences of sep, Len(pieces) = occurrences + 1
Split(s, sep) ==
    LET cuts == {i \in 1..Len(s) : s[i] = sep} \cup {0, Len(s) + 1}
        cut(k) == CHOOSE i \in cuts : Cardinality({j \in cuts : j < i}) = k - 1
    IN  [k \in 1..(Cardinality(cuts) - 1) |-> SubSeq(s, cut(k) + 1, cut(k + 1) - 1)]

\* Byte order of the characters the model uses (ASCII).
CharOrder == <<Quote, "-", ".", "/", "0", "1", "2", "3", "4", "5", "6", "7",
               "8", "9", Backslash, "a", "b", "c", "d", "e", "f", "g", "h",
               "i", "j", "k", "l", "m", "n", "o", "p", "q", "r", "s", "t", "u",
               "v", "w", "x", "y", "z">>

Ord(c) == CHOOSE k \in 1..Len(CharOrder) : CharOrder[k] = c

\* a < b as Go compares strings: byte-wise, a proper prefix first
StrLess(a, b) ==
    LET n == IF Len(a) < Len(b) THEN Len(a) ELSE Len(b)
        diff == {i \in 1..n : a[i] # b[i]}
    IN  IF diff = {} THEN Len(a) < Len(b)
        ELSE Ord(a[SetMin(diff)]) < Ord(b[SetMin(diff)])

Digit(k) == CharOrder[5 + (k % 10)]

-----------------------------------------------------------------------------
(* Literals of the source *)

StoreRoot == <<"/", "n", "i", "x", "/", "s", "t", "o", "r", "e", "/">>
BinName == <<"b", "i", "n">>
ManifestName == <<"m", "a", "n", "i", "f", "e", "s", "t", ".", "j", "s", "o", "n">>
Sha256Prefix == <<"s", "h", "a", "2", "5", "6", ":">>
EmptyStr == <<>>

-----------------------------------------------------------------------------
(* The filesystem *)

Missing == [kind |-> "missing"]

MapPut(m, k, v) == [x \in DOMAIN m \cup {k} |-> IF x = k THEN v ELSE m[x]]

\* the symbolic links of f that path goes through
LinksOn(f, path) ==
    {l \in DOMAIN f : f[l].kind = "symlink"
                      /\ (path = l \/ HasPrefix(path, l \o <<"/">>))}

\* A path that goes through a symbolic link is read through the link's target.
Resolve(f, path) ==
    Call(LAMBDA links :
            IF links = {} THEN path
            ELSE Call(LAMBDA l : f[l].target \o SubSeq(path, Len(l) + 1, Len(path)),
                      CHOOSE l \in links : TRUE),
         LinksOn(f, path))

\* os.Lstat: the entry itself, a final symbolic link is not followed.
Lstat(f, path) == IF path \in DOMAIN f THEN f[path] ELSE Missing

\* os.Stat: the entry a path leads to.
Stat(f, path) == Call(LAMBDA p : Lstat(f, p), Resolve(f, path))

SortNames(S) ==
    [k \in 1..Cardinality(S) |->
        CHOOSE x \in S : Cardinality({y \in S : StrLess(y, x)}) = k - 1]

\* os.ReadDir: the entries of a directory, sorted by file name.
ReadDir(f, path) ==
    Call(LAMBDA e :
            IF e.kind = "dir" /\ e.listable
            THEN [err |-> FALSE, files |-> Call(SortNames, e.names)]
            ELSE [err |-> TRUE, files |-> <<>>],
         Stat(f, path))

\* Everything stored under a path, by its name relative to that path.
Tree(f, path) ==
    {<<TrimPrefix(p, path), f[p]>> : p \in {q \in DOMAIN f : HasPrefix(q, path)}}

-----------------------------------------------------------------------------
(* Errors and digests *)

NoErr == [kind |-> "nil"]
IsErr(e) == e # NoErr

Sha256(data) == [alg |-> "sha256", data |-> data]
HexEncode(sum) == [enc |-> "hex", sum |-> sum]
NixBase32(sum) == [enc |-> "nixbase32", sum |-> sum]

-----------------------------------------------------------------------------
(* The functions of closure.go *)

\* trimming the leading quotes only
TrimQuotesLeadingOnly(s) ==
    Call(LAMBDA keep : IF keep = {} THEN <<>> ELSE SubSeq(s, SetMin(keep), Len(s)),
         {i \in 1..Len(s) : s[i] # Quote})

TrimQuotes(s) == Trim(s, {Quote})
Unescape(s) == Replace(s, <<Backslash, Quote>>, <<Quote>>)

CleanNameFromGraph(s) == Call(Unescape, Call(TrimQuotes, s))

\* nar.DumpPath reads the whole tree below path; any read error aborts it.
GetNarHashFromPath(f, path) ==
    Call(LAMBDA e :
            IF \/ e.kind = "symlink"
               \/ e.kind \in {"file", "dir"} /\ e.readable
            THEN [err |-> NoErr, hash |-> NixBase32(Sha256([nar |-> Tree(f, path)]))]
            ELSE [err |-> [kind |-> "dump", path |-> path], hash |-> EmptyStr],
         Lstat(f, path))

\* manifest.json looked for before bin
findAppTypeManifestFirst(files) ==
    IF \E i \in 1..Len(files) : files[i] = ManifestName THEN "CONTAINER"
    ELSE IF \E i \in 1..Len(files) : files[i] = BinName THEN "EXECUTABLE"
    ELSE "UNKNOWN_PURPOSE"

\* the first entry named bin or manifest.json decides
findAppType(files) ==
    Call(LAMBDA marks :
            IF marks = {} THEN "UNKNOWN_PURPOSE"
            ELSE IF files[SetMin(marks)] = BinName THEN "EXECUTABLE"
            ELSE "CONTAINER",
         {i \in 1..Len(files) : files[i] \in {BinName, ManifestName}})

NewApp == [Name |-> EmptyStr, Version |-> EmptyStr, AppType |-> "UNKNOWN_PURPOSE",
           ResultHash |-> EmptyStr, ResultDigest |-> EmptyStr,
           BinaryHash |-> EmptyStr]

\* a check that lets two segments through
MinPartsTwo == 3 - 1

\* len(parts) < 3 is an invalid path
MinParts == 3

parseAppDetails(f, path) ==
    Call(LAMBDA dir :
        Call(LAMBDA name :
            Call(LAMBDA parts :
                IF dir.err
                THEN [err |-> [kind |-> "readdir", path |-> path], app |-> NewApp]
                ELSE IF Len(parts) < MinParts
                THEN [err |-> [kind |-> "invalid path", path |-> name], app |-> NewApp]
                ELSE [err |-> NoErr,
                      app |-> [NewApp EXCEPT !.ResultDigest = parts[1],
                                             !.Version = parts[Len(parts)],
                                             !.AppType = Call(findAppType, dir.files)]],
                Split(name, "-")),
            TrimPrefix(path, StoreRoot)),
        ReadDir(f, path))

\* the digest of the file's path instead of its bytes
fileSHA256OfPath(f, filePath) ==
    Call(LAMBDA e :
            IF e.kind = "file" /\ e.readable
            THEN [err |-> NoErr, hash |-> HexEncode(Sha256(filePath))]
            ELSE [err |-> [kind |-> "open", path |-> filePath], hash |-> EmptyStr],
         Stat(f, filePath))

fileSHA256(f, filePath) ==
    Call(LAMBDA e :
            IF e.kind = "file" /\ e.readable
            THEN [err |-> NoErr, hash |-> HexEncode(Sha256(e.bytes))]
            ELSE [err |-> [kind |-> "open", path |-> filePath], hash |-> EmptyStr],
         Stat(f, filePath))

findResultBinary(f, output, symlink) ==
    Call(LAMBDA dir :
            IF dir.err
            THEN [err |-> [kind |-> "readdir", path |-> output \o symlink],
                  name |-> EmptyStr]
            ELSE IF dir.files = <<>>
            THEN [err |-> [kind |-> "no result binary found"], name |-> EmptyStr]
            ELSE [err |-> NoErr, name |-> Head(dir.files)],
         Call(LAMBDA p : ReadDir(f, p), output \o symlink \o <<"/">> \o BinName))

\* os.ReadFile followed by json.Unmarshal into an image manifest.
ReadManifest(f, path) ==
    Call(LAMBDA e :
            IF ~(e.kind = "file" /\ e.readable)
            THEN [err |-> [kind |-> "read", path |-> path], digest |-> EmptyStr]
            ELSE IF ~e.bytes.json
            THEN [err |-> [kind |-> "json"], digest |-> EmptyStr]
            ELSE [err |-> NoErr, digest |-> e.bytes.configDigest],
         Stat(f, path))

artifactHashOfBin(f, output, symlink) ==
    Call(LAMBDA bin :
            IF IsErr(bin.err) THEN [err |-> bin.err, hash |-> EmptyStr]
            ELSE Call(LAMBDA p : fileSHA256(f, p),
                      output \o symlink \o <<"/">> \o BinName \o <<"/">> \o bin.name),
         findResultBinary(f, output, symlink))

\* the manifest's digest returned with its algorithm prefix
artifactHashOfManifestUntrimmed(f, output, symlink) ==
    Call(LAMBDA m :
            IF IsErr(m.err) THEN [err |-> m.err, hash |-> EmptyStr]
            ELSE [err |-> NoErr, hash |-> m.digest],
         Call(LAMBDA p : ReadManifest(f, p),
              output \o symlink \o <<"/">> \o ManifestName))

artifactHashOfManifest(f, output, symlink) ==
    Call(LAMBDA m :
            IF IsErr(m.err) THEN [err |-> m.err, hash |-> EmptyStr]
            ELSE [err |-> NoErr, hash |-> TrimPrefix(m.digest, Sha256Prefix)],
         Call(LAMBDA p : ReadManifest(f, p),
              output \o symlink \o <<"/">> \o ManifestName))

\* the range loop of artifactHash: the first entry named bin or manifest.json
\* decides, no such entry gives the empty digest
artifactHashLoop(f, output, symlink, files) ==
    Call(LAMBDA marks :
            IF marks = {} THEN [err |-> NoErr, hash |-> EmptyStr]
            ELSE IF files[SetMin(marks)] = BinName
            THEN artifactHashOfBin(f, output, symlink)
            ELSE artifactHashOfManifest(f, output, symlink),
         {i \in 1..Len(files) : files[i] \in {BinName, ManifestName}})

artifactHash(f, output, symlink) ==
    Call(LAMBDA dir :
            IF dir.err
            THEN [err |-> [kind |-> "readdir", path |-> output \o symlink],
                  hash |-> EmptyStr]
            ELSE Call(LAMBDA files : artifactHashLoop(f, output, symlink, files),
                      dir.files),
         Call(LAMBDA p : ReadDir(f, p), output \o symlink))

GetAppDetails(f, output, symlink) ==
    Call(LAMBDA link :
            IF link.kind # "symlink"
            THEN [err |-> [kind |-> "failed to read symlink"], app |-> NewApp]
            ELSE Call(LAMBDA sum :
                    IF IsErr(sum.err)
                    THEN [err |-> [kind |-> "failed to get nar hash"], app |-> NewApp]
                    ELSE Call(LAMBDA parsed :
                            IF IsErr(parsed.err)
                            THEN [err |-> [kind |-> "failed to parse app details",
                                           cause |-> parsed.err],
                                  app |-> NewApp]
                            ELSE [err |-> NoErr,
                                  app |-> [parsed.app EXCEPT !.ResultHash = sum.hash]],
                            parseAppDetails(f, link.target)),
                    GetNarHashFromPath(f, link.target)),
         Call(LAMBDA p : Lstat(f, p), output \o symlink))

-----------------------------------------------------------------------------
(* addNarHashToGraph: one goroutine per node, joined by a WaitGroup *)

NoRet == [returned |-> FALSE]
NoAttrs == [k \in {} |-> EmptyStr]

Nodes == DOMAIN nodeName

\* every goroutine handed the first node of the graph
GoArgFirstNode(k) == 1

\* go func(node *gographviz.Node) {...}(node): the argument is bound at the
\* go statement, to the node of the current iteration.
GoArg(k) == k

\* a barrier that lets the caller go with one goroutine still running
WaitReadyAtMostOne(w) == w <= 1

\* wg.Wait() returns once the counter is zero.
WaitReady(w) == w = 0

\* a goroutine that ends without wg.Done()
wgDoneSkipped(w) == w

\* defer wg.Done()
wgDone(w) == w - 1

\* a failed hash that falls through to the identity parse
AfterHashErrFallThrough == "hashed"

\* if err != nil { return } after GetNarHashFromPath: the goroutine ends.
AfterHashErr == "exiting"

NodePath(n) == StoreRoot \o CleanNameFromGraph(nodeName[n])

Spawn ==
    /\ mainpc = "loop"
    /\ loopIdx <= Len(nodeName)
    /\ wg' = wg + 1
    /\ taskpc' = [taskpc EXCEPT ![loopIdx] = "spawned"]
    /\ taskNode' = [taskNode EXCEPT ![loopIdx] = GoArg(loopIdx)]
    /\ loopIdx' = loopIdx + 1
    /\ UNCHANGED <<call, ret, fs, app, nodeName, attrs, mainpc, accessed>>

LoopEnd ==
    /\ mainpc = "loop"
    /\ loopIdx > Len(nodeName)
    /\ mainpc' = "wait"
    /\ UNCHANGED <<call, ret, fs, app, graphVars>>

Wait ==
    /\ mainpc = "wait"
    /\ WaitReady(wg)
    /\ mainpc' = "returned"
    /\ UNCHANGED <<call, ret, fs, app, graphVars>>

\* path := CleanNameFromGraph(node.Name); hash, err := GetNarHashFromPath(...)
TaskHashResult(t) ==
    Call(LAMBDA path : GetNarHashFromPath(fs, path), NodePath(taskNode[t]))

\* app, err := parseAppDetails("/nix/store/" + path)
TaskParseResult(t) ==
    Call(LAMBDA path : parseAppDetails(fs, path), NodePath(taskNode[t]))

TaskHash(t) ==
    /\ taskpc[t] = "spawned"
    /\ Lstat(fs, NodePath(taskNode[t])).kind # "hung"
    /\ attrs' = IF IsErr(TaskHashResult(t).err) THEN attrs
                ELSE [attrs EXCEPT ![taskNode[t]] =
                          MapPut(@, "hash", TaskHashResult(t).hash)]
    /\ accessed' = IF IsErr(TaskHashResult(t).err) THEN accessed
                   ELSE [accessed EXCEPT ![taskNode[t]] = @ \cup {t}]
    /\ taskpc' = [taskpc EXCEPT ![t] =
                    IF IsErr(TaskHashResult(t).err) THEN AfterHashErr ELSE "hashed"]
    /\ UNCHANGED <<call, ret, fs, app, nodeName, loopIdx, wg, mainpc, taskNode>>

TaskParse(t) ==
    /\ taskpc[t] = "hashed"
    /\ attrs' = IF IsErr(TaskParseResult(t).err) THEN attrs
                ELSE [attrs EXCEPT ![taskNode[t]] =
                          MapPut(MapPut(@, "name", TaskParseResult(t).app.Name),
                                 "version", TaskParseResult(t).app.Version)]
    /\ accessed' = IF IsErr(TaskParseResult(t).err) THEN accessed
                   ELSE [accessed EXCEPT ![taskNode[t]] = @ \cup {t}]
    /\ taskpc' = [taskpc EXCEPT ![t] = "exiting"]
    /\ UNCHANGED <<call, ret, fs, app, nodeName, loopIdx, wg, mainpc, taskNode>>

TaskExit(t) ==
    /\ taskpc[t] = "exiting"
    /\ wg' = wgDone(wg)
    /\ taskpc' = [taskpc EXCEPT ![t] = "done"]
    /\ UNCHANGED <<call, ret, fs, app, nodeName, attrs, loopIdx, mainpc, taskNode,
                   accessed>>

-----------------------------------------------------------------------------
(* The graphs and store contents addNarHashToGraph is run on *)

\* <digest>-<name>-<version>, the name itself holding a hyphen
WellFormedName(k) == <<"h", Digit(k), "-", "g", "o", "-", "p", "-", "1", ".", Digit(k)>>
\* only two segments
MalformedName(k) == <<"h", Digit(k), "-", "s", "r", "c">>

Quoted(s) == <<Quote>> \o s \o <<Quote>>

RegularFile(b) == [kind |-> "file", readable |-> TRUE, bytes |-> b]
Directory(names) == [kind |-> "dir", listable |-> TRUE, readable |-> TRUE, names |-> names]
\* a directory that lists, with a file below it that cannot be read
DirectoryUnreadableBelow(names) == [Directory(names) EXCEPT !.readable = FALSE]
DirectoryNoPermission == [kind |-> "dir", listable |-> FALSE, readable |-> FALSE, names |-> {}]
Hung == [kind |-> "hung"]

\* the filesystem holding the entries of e that exist
Present(e) == [p \in {q \in DOMAIN e : e[q] # Missing} |-> e[p]]

\* what a node's label names and what the store holds for it
Scenario(wf, e) == [wellFormed |-> wf, entry |-> e]

BaseName(k, wf) == IF wf THEN WellFormedName(k) ELSE MalformedName(k)

NodeScenarios ==
    {Scenario(TRUE, Missing), Scenario(TRUE, RegularFile(<<1>>)),
     Scenario(TRUE, Directory({BinName})), Scenario(FALSE, Directory({BinName})),
     Scenario(TRUE, DirectoryUnreadableBelow({BinName}))}

\* the store as far as the nodes of the graph go
NodeFs(n, sc) ==
    Present([p \in {StoreRoot \o BaseName(k, sc[k].wellFormed) : k \in 1..n}
             |-> sc[CHOOSE k \in 1..n : p = StoreRoot \o BaseName(k, sc[k].wellFormed)].entry])

\* a graph of n nodes, as gographviz hands it over: labels in double quotes
GraphOf(n, sc) ==
    /\ nodeName = [k \in 1..n |-> Quoted(BaseName(k, sc[k].wellFormed))]
    /\ attrs = [k \in 1..n |-> NoAttrs]
    /\ loopIdx = 1
    /\ wg = 0
    /\ taskpc = [k \in 1..n |-> "notstarted"]
    /\ taskNode = [k \in 1..n |-> 0]
    /\ accessed = [k \in 1..n |-> {}]

Init ==
    /\ call = [fn |-> "addNarHashToGraph"]
    /\ ret = NoRet
    /\ app = NewApp
    /\ mainpc = "loop"
    /\ \E sc \in [1..NumNodes -> NodeScenarios] :
            GraphOf(NumNodes, sc) /\ fs = NodeFs(NumNodes, sc)

Next ==
    \/ Spawn
    \/ LoopEnd
    \/ Wait
    \/ \E t \in Nodes : TaskHash(t)
    \/ \E t \in Nodes : TaskParse(t)
    \/ \E t \in Nodes : TaskExit(t)

Spec == Init /\ [][Next]_vars

\* The same program under the Go scheduler: a goroutine that can run does run.
LiveScenarios ==
    {Scenario(TRUE, Missing), Scenario(TRUE, Directory({BinName})),
     Scenario(FALSE, Directory({BinName})), Scenario(TRUE, Hung)}

LiveInit ==
    /\ call = [fn |-> "addNarHashToGraph"]
    /\ ret = NoRet
    /\ app = NewApp
    /\ mainpc = "loop"
    /\ \E sc \in [1..FewNodes -> LiveScenarios] :
            GraphOf(FewNodes, sc) /\ fs = NodeFs(FewNodes, sc)

Fairness ==
    /\ WF_vars(Spawn)
    /\ WF_vars(LoopEnd)
    /\ WF_vars(Wait)
    /\ \A t \in 1..FewNodes :
        WF_vars(TaskHash(t)) /\ WF_vars(TaskParse(t)) /\ WF_vars(TaskExit(t))

LiveSpec == LiveInit /\ [][Next]_vars /\ Fairness

-----------------------------------------------------------------------------
(* The pure functions, each called once on an input of a bounded set *)

EmptyFs == [p \in {} |-> Missing]
NoGraph == [k \in {} |-> FALSE]

CallInit ==
    /\ ret = NoRet
    /\ app = NewApp
    /\ mainpc = "call"
    /\ GraphOf(0, NoGraph)

\* ---- CleanNameFromGraph

NixStoreAbc == StoreRoot \o <<"a", "b", "c">>
BackslashQuoted(s) == <<Backslash, Quote>> \o s \o <<Backslash, Quote>>

LabelChars == {Quote, Backslash, "/", "a"}

Labels ==
    UNION {[1..k -> LabelChars] : k \in 0..MaxLabelLen}
    \cup {NixStoreAbc, Quoted(NixStoreAbc), BackslashQuoted(NixStoreAbc),
          Quoted(BackslashQuoted(NixStoreAbc))}

CleanInit ==
    /\ CallInit
    /\ fs = EmptyFs
    /\ \E l \in Labels : call = [fn |-> "CleanNameFromGraph", s |-> l]

CleanCall ==
    /\ mainpc = "call"
    /\ call.fn = "CleanNameFromGraph"
    /\ ret' = [returned |-> TRUE, val |-> CleanNameFromGraph(call.s)]
    /\ mainpc' = "returned"
    /\ UNCHANGED <<call, fs, app, graphVars>>

CleanSpec == CleanInit /\ [][CleanCall]_vars

\* ---- parseAppDetails

Segment(k) == <<"s", Digit(k)>>

RECURSIVE Joined(_)
Joined(k) == IF k = 1 THEN Segment(1) ELSE Joined(k - 1) \o <<"-">> \o Segment(k)

OnlyOnePart == <<"o", "n", "l", "y", "o", "n", "e", "p", "a", "r", "t">>

ParseNames ==
    {Joined(k) : k \in 1..MaxSegments}
    \cup {OnlyOnePart, <<"a", "-", "-", "b">>, <<"x", "-", "y", "-">>}

ParsePaths ==
    {pre \o n : pre \in {StoreRoot, <<"/", "s", "t", "o", "r", "e", "/">>},
                n \in ParseNames}

LibName == <<"l", "i", "b">>
AuxName == <<"a", "u", "x">>
DirNames == {BinName, ManifestName, LibName, AuxName}

ParseEntries ==
    {Missing, RegularFile(<<1>>), DirectoryNoPermission}
    \cup {Directory(S) : S \in SUBSET DirNames}

ParseInit ==
    /\ CallInit
    /\ \E p \in ParsePaths, e \in ParseEntries :
        /\ call = [fn |-> "parseAppDetails", path |-> p]
        /\ fs = Present([q \in {p} |-> e])

ParseCall ==
    /\ mainpc = "call"
    /\ call.fn = "parseAppDetails"
    /\ ret' = Call(LAMBDA r : [returned |-> TRUE, err |-> r.err, app |-> r.app],
                   parseAppDetails(fs, call.path))
    /\ mainpc' = "returned"
    /\ UNCHANGED <<call, fs, app, graphVars>>

ParseSpec == ParseInit /\ [][ParseCall]_vars

\* ---- artifactHash and GetRuntimeClosureGraph: the build output

OutputDir == <<".", "/">>
ResultLink == <<"r", "e", "s", "u", "l", "t">>
MyTool == <<"m", "y", "t", "o", "o", "l">>
OtherTool == <<"a">>
XyzStorePath ==
    StoreRoot \o <<"x", "y", "z", "1", "2", "3", "-">> \o MyTool
              \o <<"-", "1", ".", "2", ".", "3">>
TwoPartStorePath == StoreRoot \o <<"x", "y", "z", "1", "2", "3", "-">> \o MyTool
DeadBeef == <<"d", "e", "a", "d", "b", "e", "e", "f">>

ManifestFile(digest) == RegularFile([json |-> TRUE, configDigest |-> digest])
BrokenManifest == RegularFile([json |-> FALSE])
Unreadable == [kind |-> "file", readable |-> FALSE, bytes |-> <<>>]

\* a build output: its directory, what bin/ holds, and its manifest.json
Output(viaLink, target, children, binDir, toolBytes, manifest) ==
    [viaLink |-> viaLink, target |-> target, children |-> children,
     binDir |-> binDir, toolBytes |-> toolBytes, manifest |-> manifest]

OutputTree(at, o) ==
    [p \in {at} |-> Directory(o.children)]
    @@ (IF BinName \in o.children
        THEN [p \in {at \o <<"/">> \o BinName} |-> o.binDir]
             @@ [p \in {at \o <<"/">> \o BinName \o <<"/">> \o n : n \in o.binDir.names}
                 |-> IF p = at \o <<"/">> \o BinName \o <<"/">> \o MyTool
                     THEN RegularFile(o.toolBytes) ELSE RegularFile(<<9>>)]
        ELSE EmptyFs)
    @@ (IF ManifestName \in o.children
        THEN [p \in {at \o <<"/">> \o ManifestName} |-> o.manifest]
        ELSE EmptyFs)

\* output+symlink is a symbolic link into the store, or the directory itself
OutputFs(o) ==
    IF o.viaLink
    THEN [p \in {OutputDir \o ResultLink} |-> [kind |-> "symlink", target |-> o.target]]
         @@ OutputTree(o.target, o)
    ELSE OutputTree(OutputDir \o ResultLink, o)

ArtifactOutputs ==
    {Output(l, XyzStorePath, c, b, t, m) :
        l \in BOOLEAN,
        c \in SUBSET {BinName, ManifestName, LibName},
        b \in {Directory({}), Directory({MyTool}), Directory({MyTool, OtherTool}),
               DirectoryNoPermission},
        t \in {<<1>>, <<2>>},
        m \in {ManifestFile(Sha256Prefix \o DeadBeef), ManifestFile(Sha256Prefix),
               ManifestFile(DeadBeef), ManifestFile(<<"m", "d", "5", ":">> \o DeadBeef),
               BrokenManifest, Unreadable}}

ArtifactInit ==
    /\ CallInit
    /\ call = [fn |-> "artifactHash", output |-> OutputDir, symlink |-> ResultLink]
    /\ \/ fs = EmptyFs
       \/ \E o \in ArtifactOutputs : fs = OutputFs(o)

ArtifactCall ==
    /\ mainpc = "call"
    /\ call.fn = "artifactHash"
    /\ ret' = Call(LAMBDA r : [returned |-> TRUE, err |-> r.err, hash |-> r.hash],
                   artifactHash(fs, call.output, call.symlink))
    /\ mainpc' = "returned"
    /\ UNCHANGED <<call, fs, app, graphVars>>

ArtifactSpec == ArtifactInit /\ [][ArtifactCall]_vars

\* ---- GetRuntimeClosureGraph

\* app.Version = "0.0.0"
PlaceholderVersion == <<"0", ".", "0", ".", "0">>

Failed(err) == [returned |-> TRUE, err |-> err, app |-> NewApp]

RunGetAppDetails ==
    /\ mainpc = "start"
    /\ \E r \in {GetAppDetails(fs, call.output, call.symlink)} :
        IF IsErr(r.err)
        THEN /\ mainpc' = "failed"
             /\ ret' = Failed(r.err)
             /\ app' = app
        ELSE /\ mainpc' = "nixstore"
             /\ app' = [r.app EXCEPT !.Name = call.appName,
                                     !.Version = PlaceholderVersion]
             /\ ret' = ret
    /\ UNCHANGED <<call, fs, graphVars>>

\* nix-store -q --graph, gographviz.ParseString and gographviz.Analyse: each
\* can fail; on success the graph is the closure nix-store printed.
RunNixStore ==
    /\ mainpc = "nixstore"
    /\ \E outcome \in {"graph", "failed with", "failed to parse graph",
                       "failed to analyse graph"} :
        IF outcome = "graph"
        THEN mainpc' = "loop" /\ ret' = ret
        ELSE mainpc' = "failed" /\ ret' = Failed([kind |-> outcome])
    /\ UNCHANGED <<call, fs, app, graphVars>>

RunArtifactHash ==
    /\ mainpc = "returned"
    /\ call.fn = "GetRuntimeClosureGraph"
    /\ \E r \in {artifactHash(fs, call.output, call.symlink)} :
        IF IsErr(r.err)
        THEN /\ mainpc' = "failed"
             /\ ret' = Failed([kind |-> "failed to get artifact hash", cause |-> r.err])
             /\ app' = app
        ELSE /\ mainpc' = "finished"
             /\ app' = [app EXCEPT !.BinaryHash = r.hash]
             /\ ret' = [returned |-> TRUE, err |-> NoErr,
                        app |-> [app EXCEPT !.BinaryHash = r.hash]]
    /\ UNCHANGED <<call, fs, graphVars>>

E2EOutputs ==
    {Output(l, target, c, b, t, m) :
        l \in BOOLEAN,
        target \in {XyzStorePath, TwoPartStorePath},
        c \in {{BinName}, {ManifestName}, {BinName, ManifestName}, {LibName}},
        b \in {Directory({}), Directory({MyTool}), Directory({MyTool, OtherTool})},
        t \in {<<1>>, <<2>>},
        m \in {ManifestFile(Sha256Prefix \o DeadBeef), BrokenManifest}}

E2EScenarios == {Scenario(TRUE, Missing), Scenario(TRUE, Directory({BinName}))}

E2EInit ==
    /\ call = [fn |-> "GetRuntimeClosureGraph", appName |-> MyTool,
               output |-> OutputDir, symlink |-> ResultLink]
    /\ ret = NoRet
    /\ app = NewApp
    /\ mainpc = "start"
    /\ \E sc \in [1..FewNodes -> E2EScenarios], o \in E2EOutputs :
            GraphOf(FewNodes, sc) /\ fs = NodeFs(FewNodes, sc) @@ OutputFs(o)

E2ENext ==
    \/ RunGetAppDetails
    \/ RunNixStore
    \/ Spawn
    \/ LoopEnd
    \/ Wait
    \/ \E t \in Nodes : TaskHash(t)
    \/ \E t \in Nodes : TaskParse(t)
    \/ \E t \in Nodes : TaskExit(t)
    \/ RunArtifactHash

E2ESpec == E2EInit /\ [][E2ENext]_vars

-----------------------------------------------------------------------------
(* Properties of addNarHashToGraph *)

AllTasksDone == \A t \in Nodes : taskpc[t] = "done"

HasAttr(n, k) == k \in DOMAIN attrs[n]

\* the store path a node's label stands for
TruePath(n) == StoreRoot \o SubSeq(nodeName[n], 2, Len(nodeName[n]) - 1)

HashSucceeds(n) == ~IsErr(GetNarHashFromPath(fs, TruePath(n)).err)
ParseSucceeds(n) == ~IsErr(parseAppDetails(fs, TruePath(n)).err)

ReadableWellFormed(n) ==
    LET e == Lstat(fs, TruePath(n))
    IN  /\ e.kind = "dir" /\ e.listable /\ e.readable
        /\ Len(Split(TrimPrefix(TruePath(n), StoreRoot), "-")) >= 3

\* C1: when addNarHashToGraph has returned every goroutine it spawned has
\* finished, and no node attribute is written after the return.
C1_JoinBeforeReturn ==
    /\ [](mainpc = "returned" => AllTasksDone)
    /\ [][mainpc = "returned" => attrs' = attrs]_vars

C1_Witness ==
    /\ mainpc = "returned"
    /\ \A n \in Nodes : HasAttr(n, "hash") /\ HasAttr(n, "version")

\* C2: in a graph where exactly one node's path is missing and every other
\* node's path is a readable well-formed store path, after enrichment the
\* missing node has none of hash, name, version, every other node has all
\* three, and the call returns normally.
C2_OneMissingNode ==
    \A K \in Nodes :
        (/\ mainpc = "returned"
         /\ Lstat(fs, TruePath(K)) = Missing
         /\ \A n \in Nodes \ {K} : ReadableWellFormed(n))
        => /\ \A k \in {"hash", "name", "version"} : ~HasAttr(K, k)
           /\ \A n \in Nodes \ {K} :
                \A k \in {"hash", "name", "version"} : HasAttr(n, k)

C2_Witness ==
    /\ mainpc = "returned"
    /\ Lstat(fs, TruePath(2)) = Missing
    /\ \A n \in Nodes \ {2} : ReadableWellFormed(n)

\* C8: one goroutine is spawned per node and a node's attribute map is only
\* ever touched by the goroutine of that node, so no two goroutines share one.
C8_DisjointWriters ==
    /\ \A n \in Nodes : accessed[n] \subseteq {n}
    /\ \A n \in Nodes : Cardinality(accessed[n]) <= 1
    /\ mainpc # "loop" =>
         \A n \in Nodes :
            Cardinality({t \in Nodes : taskpc[t] # "notstarted" /\ taskNode[t] = n}) = 1

C8_Witness ==
    \E a, b \in Nodes :
        /\ a # b
        /\ taskpc[a] = "hashed" /\ accessed[a] = {a}
        /\ taskpc[b] = "hashed" /\ accessed[b] = {b}

\* C9 as claimed: hash is written iff hashing succeeded, name and version iff
\* identity parsing succeeded, each step suppressing only its own attributes.
C9_PerStepPolicy ==
    mainpc = "returned" =>
        \A n \in Nodes :
            /\ HasAttr(n, "hash") <=> HashSucceeds(n)
            /\ HasAttr(n, "name") <=> ParseSucceeds(n)
            /\ HasAttr(n, "version") <=> ParseSucceeds(n)

\* C9 amended: hash is written iff hashing succeeded; name and version are
\* written iff hashing and identity parsing both succeeded (a failed hash ends
\* the goroutine before the identity is parsed).
C9_HashGatesIdentity ==
    mainpc = "returned" =>
        \A n \in Nodes :
            /\ HasAttr(n, "hash") <=> HashSucceeds(n)
            /\ HasAttr(n, "name") <=> (HashSucceeds(n) /\ ParseSucceeds(n))
            /\ HasAttr(n, "version") <=> (HashSucceeds(n) /\ ParseSucceeds(n))

C9_Witness ==
    /\ mainpc = "returned"
    /\ \E n \in Nodes : ~HashSucceeds(n) /\ ParseSucceeds(n)
    /\ \E n \in Nodes : HashSucceeds(n) /\ ~ParseSucceeds(n)

\* C10: under fair scheduling, if every goroutine eventually finishes the call
\* eventually returns, and if some goroutine never finishes it never returns.
C10_BarrierLiveness ==
    /\ (\A t \in 1..FewNodes : <>(taskpc[t] = "done")) => <>(mainpc = "returned")
    /\ (\E t \in 1..FewNodes : [](taskpc[t] # "done")) => [](mainpc # "returned")

C10_Witness ==
    /\ mainpc = "wait"
    /\ \E t \in Nodes : taskpc[t] = "spawned" /\ Lstat(fs, TruePath(t)) = Hung
    /\ \E t \in Nodes : taskpc[t] = "done"

-----------------------------------------------------------------------------
(* Properties of the pure functions *)

NoQuoteOrBackslash(s) == \A i \in 1..Len(s) : s[i] \notin {Quote, Backslash}

\* C4: the label \"/nix/store/abc\" (wrapped in backslash-quote sequences)
\* normalizes to exactly /nix/store/abc, no quote or backslash left.
C4_BackslashQuotedLabel ==
    (/\ call.fn = "CleanNameFromGraph"
     /\ ret.returned
     /\ call.s = BackslashQuoted(NixStoreAbc))
    => ret.val = NixStoreAbc /\ NoQuoteOrBackslash(ret.val)

Parsed == call.fn = "parseAppDetails" /\ ret.returned

\* C5: the AppType is Executable when a child named bin is present (also
\* next to manifest.json), Container when manifest.json is present and bin is
\* not, Unknown when neither is.
C5_Classification ==
    (Parsed /\ ret.err = NoErr) =>
        ret.app.AppType =
            IF BinName \in Lstat(fs, call.path).names THEN "EXECUTABLE"
            ELSE IF ManifestName \in Lstat(fs, call.path).names THEN "CONTAINER"
            ELSE "UNKNOWN_PURPOSE"

C5_Witness ==
    /\ Parsed /\ ret.err = NoErr
    /\ {BinName, ManifestName, AuxName} \subseteq Lstat(fs, call.path).names
    /\ ret.app.AppType = "EXECUTABLE"

\* the number of '-'-separated segments of a path's name
Segments(path) ==
    Cardinality({i \in 1..Len(TrimPrefix(path, StoreRoot)) :
                    TrimPrefix(path, StoreRoot)[i] = "-"}) + 1

Listable(path) ==
    Lstat(fs, path).kind = "dir" /\ Lstat(fs, path).listable

\* C6 as claimed: a path of fewer than 3 segments always fails, and always
\* with the "invalid path" error, never another one.
C6_AlwaysInvalidPath ==
    (Parsed /\ Segments(call.path) < 3) => ret.err.kind = "invalid path"

\* C6 amended: a path of fewer than 3 segments always fails; when the
\* directory listing of the path succeeds the failure is the "invalid path"
\* error naming the path without its store-root prefix, and when the listing
\* fails it is the listing's error.
C6_InvalidPathWhenListed ==
    (Parsed /\ Segments(call.path) < 3) =>
        /\ ret.err # NoErr
        /\ Listable(call.path) =>
                ret.err = [kind |-> "invalid path",
                           path |-> TrimPrefix(call.path, StoreRoot)]
        /\ ~Listable(call.path) => ret.err.kind = "readdir"

C6_Witness ==
    /\ Parsed
    /\ call.path = <<"/", "s", "t", "o", "r", "e", "/">> \o OnlyOnePart
    /\ Listable(call.path)
    /\ ret.err.kind = "invalid path"

ResultPath == OutputDir \o ResultLink
ResultDir == Stat(fs, ResultPath)
ResultManifest == Stat(fs, ResultPath \o <<"/">> \o ManifestName)

\* C7: on an output directory without bin whose manifest.json has the
\* config digest sha256:<hex>, artifactHash returns <hex> and no error
\* (deadbeef for sha256:deadbeef); on a directory with neither bin nor
\* manifest.json it returns the empty digest and no error.
C7_ManifestDigest ==
    (call.fn = "artifactHash" /\ ret.returned /\ ResultDir.kind = "dir"
        /\ ResultDir.listable /\ BinName \notin ResultDir.names) =>
        /\ (/\ ManifestName \in ResultDir.names
            /\ ResultManifest.readable
            /\ ResultManifest.bytes.json
            /\ HasPrefix(ResultManifest.bytes.configDigest, Sha256Prefix))
           => /\ ret.err = NoErr
              /\ ret.hash = SubSeq(ResultManifest.bytes.configDigest,
                                   Len(Sha256Prefix) + 1,
                                   Len(ResultManifest.bytes.configDigest))
        /\ ManifestName \notin ResultDir.names
           => ret.err = NoErr /\ ret.hash = EmptyStr

C7_Witness ==
    /\ call.fn = "artifactHash" /\ ret.returned
    /\ ResultDir.kind = "dir" /\ ResultDir.names = {ManifestName, LibName}
    /\ ResultManifest = ManifestFile(Sha256Prefix \o DeadBeef)
    /\ ret.err = NoErr
    /\ ret.hash = DeadBeef

-----------------------------------------------------------------------------
(* Properties of GetRuntimeClosureGraph *)

\* the output root resolves to xyz123-mytool-1.2.3, which holds bin/mytool,
\* and every step has succeeded
XyzBuilt ==
    /\ call.fn = "GetRuntimeClosureGraph"
    /\ mainpc = "finished"
    /\ Lstat(fs, ResultPath).kind = "symlink"
    /\ Lstat(fs, ResultPath).target = XyzStorePath
    /\ BinName \in Lstat(fs, XyzStorePath).names
    /\ Lstat(fs, XyzStorePath \o <<"/">> \o BinName).names = {MyTool}

MyToolBytes ==
    Lstat(fs, XyzStorePath \o <<"/">> \o BinName \o <<"/">> \o MyTool).bytes

\* C3 as claimed: the summary has Version "1.2.3", AppType Executable and
\* BinaryHash the hex SHA-256 of the bytes of mytool.
C3_EndToEnd ==
    XyzBuilt =>
        /\ ret.app.Version = <<"1", ".", "2", ".", "3">>
        /\ ret.app.AppType = "EXECUTABLE"
        /\ ret.app.BinaryHash = HexEncode(Sha256(MyToolBytes))

\* C3 amended: the summary has Version "0.0.0" (the fixed value
\* GetRuntimeClosureGraph assigns over the parsed one), AppType Executable and
\* BinaryHash the hex SHA-256 of the bytes of mytool.
C3_EndToEndPlaceholderVersion ==
    XyzBuilt =>
        /\ ret.app.Version = <<"0", ".", "0", ".", "0">>
        /\ ret.app.AppType = "EXECUTABLE"
        /\ ret.app.BinaryHash = HexEncode(Sha256(MyToolBytes))

C3_Witness ==
    /\ XyzBuilt
    /\ ret.err = NoErr
    /\ MyToolBytes = <<2>>
    /\ \E n \in Nodes : HasAttr(n, "hash")

====
